---- MODULE Spec2Model ----
(***************************************************************************)
(* AlphaTrader dashboard (src/app.py): the indicator/signal classifier,    *)
(* the market scanner, the options put/call calculator, the sentiment      *)
(* scorer, the snapshot store and the page render that ties them together. *)
(*                                                                         *)
(* Numbers.  Prices, volumes and indicator values are integers; a missing  *)
(* value (numpy NaN) is the value NaN, and every comparison with it is     *)
(* false, as in numpy.  Python's None is the empty tuple, a present value  *)
(* x is <<x>>.  Scores are counted in half points (0.5 == 1 half point).   *)
(* A real-valued ratio is the pair [num, den]; den = 0 is the float        *)
(* division by zero of numpy (inf when num > 0, NaN when num = 0).         *)
(***************************************************************************)
EXTENDS Integers, Sequences, FiniteSets, TLC

VARIABLES
    bars,           \* get_signal: what yf.download and pandas_ta hand back
    signal_result,  \* get_signal: <<>> before the call, then <<[df, err]>>
    score_in,       \* get_comprehensive_analysis: [row, prev_row, pc_data]
    score_out,      \* get_comprehensive_analysis: <<>>, then <<[sentiment, ...]>>
    scan_data,      \* scan_market_summary: the batch download, per ticker
    scan,           \* scan_market_summary: loop position and summary
    opt_in,         \* get_advanced_pc_ratio: current_price and tk.options
    opt,            \* get_advanced_pc_ratio: loop position, totals, result
    win_in,         \* strike window: one option chain side and the spot price
    win_out,        \* strike window: <<>>, then <<[center, lo, hi, vol]>>
    file,           \* SNAPSHOT_FILE on disk
    clock,          \* wall clock: [day, hm] in US/Eastern, and the server's zone
    render,         \* what the last page render did
    expected,       \* history: per ticker, the arguments of its latest save
    nsaves          \* history: per ticker, saves on the current Eastern day

vars == <<bars, signal_result, score_in, score_out, scan_data, scan, opt_in, opt,
          win_in, win_out, file, clock, render, expected, nsaves>>

None == <<>>
Some(x) == <<x>>

\* numpy NaN: the warm-up rows of ta.ema / ta.macd / ta.sma, a missing volume.
NaN == -999

\* Comparisons as numpy evaluates them: false whenever a side is NaN.
Gt(a, b) == a # NaN /\ b # NaN /\ a > b
Lt(a, b) == a # NaN /\ b # NaN /\ a < b

\* ------------------------------------------------------------------------
\* Bounds of the model.
MaxTickers == 2     \* tickers of TARGET_TICKERS that are scanned / selectable
MaxExp == 2         \* expirations tk.options lists
MaxChain == 12      \* strikes of one option chain side
MaxDay == 2         \* Eastern calendar days the clock runs through

\* ------------------------------------------------------------------------
\* Program constants.
MIN_BARS == 50          \* len(df) < 50
WINDOW_DAYS == 40       \* 0 <= (exp_date - today).days <= 40
HALF_WINDOW == 5        \* center_idx - 5 : center_idx + 6

TARGET_TICKERS ==
    <<"AAPL", "AMD", "APP", "ASML", "AVGO", "GOOG", "HIMS", "INTC",
      "LLY", "LRCX", "MSFT", "MU", "NBIS", "NVDA", "ORCL", "PLTR",
      "QQQ", "SPY", "TEM", "TSLA", "TSM", "XLV">>

\* The three Signal strings and the error strings (Chinese in the source, named
\* here by their meaning: strong bull / oscillation / strong bear).
BUY == "STRONG_BULL"
HOLD == "OSCILLATION"
SELL == "STRONG_BEAR"
INSUFFICIENT == "insufficient data"

Min(a, b) == IF a < b THEN a ELSE b
Max(a, b) == IF a > b THEN a ELSE b

\* ========================================================================
\* 4. calculate_technical_indicators / get_signal
\* ========================================================================

\* buy_cond with the volume confirmation forgotten.
buy_cond_no_volume(row) ==
    /\ Gt(row.Close, row.EMA_8)
    /\ Gt(row.EMA_8, row.EMA_21)
    /\ Gt(row.MACD_Hist, 0)
    /\ Gt(row.MACD_Hist, row.prevHist)

\* The BUY mask of one row (conditions[0]); prevHist is MACD_Hist.shift(1).
buy_cond(row) ==
    /\ Gt(row.Close, row.EMA_8)
    /\ Gt(row.EMA_8, row.EMA_21)
    /\ Gt(row.MACD_Hist, 0)
    /\ Gt(row.MACD_Hist, row.prevHist)
    /\ row.Volume # NaN /\ row.Vol_SMA_10 # NaN
    /\ 10 * row.Volume > 12 * row.Vol_SMA_10

\* sell_cond with the price comparison the wrong way round.
sell_cond_flipped(row) == Gt(row.Close, row.EMA_21) \/ Lt(row.MACD_Hist, 0)

\* The SELL mask of one row.
sell_cond(row) == Lt(row.Close, row.EMA_21) \/ Lt(row.MACD_Hist, 0)

\* np.select(conditions, [BUY], default=HOLD), then df.loc[sell_cond] = SELL.
SignalOf(row) ==
    LET selected == IF buy_cond(row) THEN BUY ELSE HOLD
    IN  IF sell_cond(row) THEN SELL ELSE selected

\* A downloaded frame before any indicator column exists.
RawFrame(n, lastNaN) == [len |-> n, lastNaN |-> lastNaN, columns |-> FALSE, last |-> None]

\* df.iloc[:-1]: the trailing row goes, and with it the missing price.
DropLast(df) == [df EXCEPT !.len = df.len - 1, !.lastNaN = FALSE]

\* calculate_technical_indicators with the length check off by one.
calculate_off_by_one(df, ta) ==
    IF df.len < MIN_BARS - 1
    THEN [df |-> df, err |-> Some(INSUFFICIENT), raised |-> FALSE]
    ELSE IF ta.raises
    THEN [df |-> df, err |-> None, raised |-> TRUE]
    ELSE [df |-> [df EXCEPT !.columns = TRUE,
                            !.last = Some([ta.row EXCEPT !.Signal = SignalOf(ta.row)])],
          err |-> None, raised |-> FALSE]

\* calculate_technical_indicators(df, atr_mult).  ta is what pandas_ta computes
\* on this frame: ta.row, the indicator values of a row and of the row before it
\* (prevHist), ta.prev_close, the Close of the row before the last, and ta.raises, whether the computation throws (a column missing
\* from the download, macd None).  Returns [df, err, raised].
calculate_technical_indicators(df, ta) ==
    IF df.len < MIN_BARS
    THEN [df |-> df, err |-> Some(INSUFFICIENT), raised |-> FALSE]
    ELSE IF ta.raises
    THEN [df |-> df, err |-> None, raised |-> TRUE]
    ELSE [df |-> [df EXCEPT !.columns = TRUE,
                            !.last = Some([ta.row EXCEPT !.Signal = SignalOf(ta.row)])],
          err |-> None, raised |-> FALSE]

\* get_signal(ticker, atr_mult): [df, err], df None whenever err is set.
get_signal(b) ==
    IF b.download_fails
    THEN [df |-> None, err |-> Some("exception")]
    ELSE LET df0 == RawFrame(b.len, b.lastNaN)
             df1 == IF df0.len > 0 /\ df0.lastNaN THEN DropLast(df0) ELSE df0
             res == calculate_technical_indicators(df1, b.ta)
         IN  IF res.raised THEN [df |-> None, err |-> Some("exception")]
             ELSE IF res.err # None THEN [df |-> None, err |-> res.err]
             ELSE [df |-> Some(res.df), err |-> None]

\* Indicator values of one row as pandas_ta may produce them (NaN in warm-up).
Rows ==
    [Close : {1, 2, 3}, EMA_8 : {1, 2, NaN}, EMA_21 : {1, 2, 3, NaN},
     MACD_Hist : {-1, 0, 1, 2, NaN}, prevHist : {0, 1, NaN},
     Volume : {10, 12, 13}, Vol_SMA_10 : {10, NaN}, Signal : {""}]

HoldRow ==
    [Close |-> 2, EMA_8 |-> 2, EMA_21 |-> 2, MACD_Hist |-> 0, prevHist |-> 0,
     Volume |-> 10, Vol_SMA_10 |-> 10, Signal |-> ""]

BarCounts == {0, 1, MIN_BARS - 1, MIN_BARS, MIN_BARS + 1}

\* Every variable of the components a specification does not exercise.
IdleSignal == bars = None /\ signal_result = None
IdleScore == score_in = None /\ score_out = None
IdleScan == scan_data = None /\ scan = None
IdleOptions == opt_in = None /\ opt = None
IdleWindow == win_in = None /\ win_out = None
IdleRender == file = None /\ clock = None /\ render = None
              /\ expected = None /\ nsaves = None

InitSignal ==
    /\ \E n \in BarCounts, lastNaN \in BOOLEAN, fails \in BOOLEAN, raises \in BOOLEAN :
         /\ fails => (n = 0 /\ ~lastNaN /\ ~raises)
         /\ \E row \in (IF fails \/ raises \/ n < MIN_BARS THEN {HoldRow} ELSE Rows) :
              bars = Some([download_fails |-> fails, len |-> n, lastNaN |-> lastNaN,
                           ta |-> [row |-> row, prev_close |-> 2, raises |-> raises]])
    /\ signal_result = None
    /\ IdleScore /\ IdleScan /\ IdleOptions /\ IdleWindow /\ IdleRender

\* One call of get_signal.
GetSignal ==
    /\ bars # None /\ signal_result = None
    /\ signal_result' = Some(get_signal(bars[1]))
    /\ UNCHANGED <<bars, score_in, score_out, scan_data, scan, opt_in, opt,
                   win_in, win_out, file, clock, render, expected, nsaves>>

NextSignal == GetSignal

SpecSignal == InitSignal /\ [][NextSignal]_vars

\* ========================================================================
\* scan_market_summary
\* ========================================================================

\* The tickers handed to the scanner and offered by the selectbox.
Tickers == SubSeq(TARGET_TICKERS, 1, MaxTickers)
TickerSet == {Tickers[i] : i \in 1..Len(Tickers)}

BuyRow ==
    [Close |-> 3, EMA_8 |-> 2, EMA_21 |-> 1, MACD_Hist |-> 2, prevHist |-> 1,
     Volume |-> 13, Vol_SMA_10 |-> 10, Signal |-> ""]
SellRow ==
    [Close |-> 1, EMA_8 |-> 2, EMA_21 |-> 2, MACD_Hist |-> -1, prevHist |-> 0,
     Volume |-> 10, Vol_SMA_10 |-> 10, Signal |-> ""]

\* What the batch download holds for one ticker: no column group at all
\* (data[ticker] raises KeyError), or a frame of len rows.
TickerDatas ==
    {[kind |-> "missing", len |-> 0, lastNaN |-> FALSE,
      ta |-> [row |-> HoldRow, prev_close |-> 2, raises |-> FALSE]]}
    \cup {[kind |-> "frame", len |-> n, lastNaN |-> FALSE,
           ta |-> [row |-> HoldRow, prev_close |-> 2, raises |-> FALSE]] :
             n \in {0, MIN_BARS - 1}}
    \cup {[kind |-> "frame", len |-> n, lastNaN |-> TRUE,
           ta |-> [row |-> SellRow, prev_close |-> 2, raises |-> FALSE]] :
             n \in {1, MIN_BARS, MIN_BARS + 1}}
    \cup {[kind |-> "frame", len |-> MIN_BARS, lastNaN |-> FALSE,
           ta |-> [row |-> HoldRow, prev_close |-> 2, raises |-> TRUE]]}
    \cup {[kind |-> "frame", len |-> MIN_BARS, lastNaN |-> FALSE,
           ta |-> [row |-> r, prev_close |-> 2, raises |-> FALSE]] :
             r \in {BuyRow, HoldRow, SellRow}}

\* f"{ticker} (${last_row['Close']:.2f} | {pct_chg:+.2f}%)"
display_str(ticker, last_row, prev_close) ==
    [ticker |-> ticker, close |-> last_row.Close,
     pct_chg |-> [num |-> (last_row.Close - prev_close) * 100, den |-> prev_close]]

EmptySummary == [s \in {BUY, HOLD, SELL} |-> <<>>]

\* scan_ticker with "if err: continue" forgotten: a ticker without indicator
\* columns falls into the default bucket.
scan_ticker_no_err_check(summary, ticker, d) ==
    IF d.kind = "missing" THEN summary
    ELSE LET df0 == RawFrame(d.len, d.lastNaN)
             df_t == IF df0.len > 0 /\ df0.lastNaN THEN DropLast(df0) ELSE df0
             res == calculate_technical_indicators(df_t, d.ta)
         IN  IF df_t.len = 0 THEN summary
             ELSE IF res.raised THEN summary
             ELSE IF res.err # None
             THEN [summary EXCEPT ![HOLD] = Append(@, display_str(ticker, d.ta.row, d.ta.prev_close))]
             ELSE LET last_row == res.df.last[1]
                      last_sig == last_row.Signal
                      str == display_str(ticker, last_row, d.ta.prev_close)
                      key == IF last_sig \in DOMAIN summary THEN last_sig ELSE HOLD
                  IN  [summary EXCEPT ![key] = Append(@, str)]

\* The body of the loop for one ticker: the summary after it.  Every early
\* continue and the inner except leave the summary as it was.
scan_ticker(summary, ticker, d) ==
    IF d.kind = "missing" THEN summary
    ELSE LET df0 == RawFrame(d.len, d.lastNaN)
             df_t == IF df0.len > 0 /\ df0.lastNaN THEN DropLast(df0) ELSE df0
             res == calculate_technical_indicators(df_t, d.ta)
         IN  IF df_t.len = 0 THEN summary
             ELSE IF res.raised \/ res.err # None THEN summary
             ELSE LET last_row == res.df.last[1]
                      last_sig == last_row.Signal
                      str == display_str(ticker, last_row, d.ta.prev_close)
                      key == IF last_sig \in DOMAIN summary THEN last_sig ELSE HOLD
                  IN  [summary EXCEPT ![key] = Append(@, str)]

InitScan ==
    /\ \E fails \in BOOLEAN :
         \E frames \in (IF fails THEN {[t \in TickerSet |-> CHOOSE d \in TickerDatas : d.kind = "missing"]}
                                 ELSE [TickerSet -> TickerDatas]) :
            scan_data = Some([download_fails |-> fails, frames |-> frames])
    /\ scan = Some([pc |-> "start", i |-> 1, summary |-> Some(EmptySummary), result |-> None])
    /\ \E d \in TickerDatas, fails \in BOOLEAN :
         /\ fails => d.kind = "missing"
         /\ ~fails => d.kind = "frame"
         /\ bars = Some([download_fails |-> fails, len |-> d.len, lastNaN |-> d.lastNaN,
                         ta |-> d.ta])
    /\ signal_result = None
    /\ IdleScore /\ IdleOptions /\ IdleWindow /\ IdleRender

\* yf.download(tickers, ...): on an exception the outer except returns None.
ScanDownload ==
    /\ scan # None /\ scan[1].pc = "start"
    /\ scan' = IF scan_data[1].download_fails
               THEN Some([scan[1] EXCEPT !.pc = "done", !.result = None])
               ELSE Some([scan[1] EXCEPT !.pc = "loop"])
    /\ UNCHANGED <<bars, signal_result, score_in, score_out, scan_data, opt_in, opt,
                   win_in, win_out, file, clock, render, expected, nsaves>>

\* One iteration of "for ticker in tickers".
ScanTicker ==
    /\ scan # None /\ scan[1].pc = "loop" /\ scan[1].i <= Len(Tickers)
    /\ LET t == Tickers[scan[1].i]
       IN  scan' = Some([scan[1] EXCEPT
                           !.summary = Some(scan_ticker(@[1], t, scan_data[1].frames[t])),
                           !.i = @ + 1])
    /\ UNCHANGED <<bars, signal_result, score_in, score_out, scan_data, opt_in, opt,
                   win_in, win_out, file, clock, render, expected, nsaves>>

\* return summary
ScanReturn ==
    /\ scan # None /\ scan[1].pc = "loop" /\ scan[1].i > Len(Tickers)
    /\ scan' = Some([scan[1] EXCEPT !.pc = "done", !.result = scan[1].summary])
    /\ UNCHANGED <<bars, signal_result, score_in, score_out, scan_data, opt_in, opt,
                   win_in, win_out, file, clock, render, expected, nsaves>>

NextScan == GetSignal \/ ScanDownload \/ ScanTicker \/ ScanReturn

SpecScan == InitScan /\ [][NextScan]_vars

\* ========================================================================
\* Properties of the classifier and the scanner
\* ========================================================================

\* The classification rule as the specification words it (section 4.2).
ClaimSell(row) == Lt(row.Close, row.EMA_21) \/ Lt(row.MACD_Hist, 0)
ClaimBuy(row) ==
    /\ Gt(row.Close, row.EMA_8) /\ Gt(row.EMA_8, row.EMA_21)
    /\ Gt(row.MACD_Hist, 0) /\ Gt(row.MACD_Hist, row.prevHist)
    /\ row.Volume # NaN /\ row.Vol_SMA_10 # NaN
    /\ 10 * row.Volume > 12 * row.Vol_SMA_10
ClaimSignal(row) ==
    IF ClaimSell(row) THEN SELL ELSE IF ClaimBuy(row) THEN BUY ELSE HOLD

\* Rows of the frame calculate_technical_indicators receives: the trailing row
\* without a price is removed by the caller first.
EffectiveLen(d) == IF d.len > 0 /\ d.lastNaN THEN d.len - 1 ELSE d.len

\* C1: every row of an accepted series (>= 50 bars) carries exactly one of the
\* three signals: SELL iff close < EMA_21 or MACD_Hist < 0; otherwise BUY iff
\* all five entry conditions hold; otherwise HOLD.
C1_SignalRule ==
    (signal_result # None /\ signal_result[1].df # None) =>
        LET row == bars[1].ta.row
            sig == signal_result[1].df[1].last[1].Signal
        IN  /\ sig \in {BUY, HOLD, SELL}
            /\ (sig = SELL) <=> ClaimSell(row)
            /\ (sig = BUY) <=> (~ClaimSell(row) /\ ClaimBuy(row))
            /\ (sig = HOLD) <=> (~ClaimSell(row) /\ ~ClaimBuy(row))
            /\ EffectiveLen(bars[1]) >= MIN_BARS

C1_Witness ==
    /\ signal_result # None /\ signal_result[1].df # None
    /\ signal_result[1].df[1].last[1].Signal = BUY
    /\ bars[1].len = MIN_BARS

\* Whether the claim counts ticker data as succeeding: fetched, not empty, at
\* least 50 priced bars, no exception while computing.
Succeeds(d) == d.kind = "frame" /\ EffectiveLen(d) >= MIN_BARS /\ ~d.ta.raises

TickerIndex(t) == CHOOSE k \in 1..Len(Tickers) : Tickers[k] = t

C7_InsufficientData ==
    /\ (bars # None /\ ~bars[1].download_fails /\ EffectiveLen(bars[1]) < MIN_BARS) =>
         LET df == RawFrame(EffectiveLen(bars[1]), FALSE)
             res == calculate_technical_indicators(df, bars[1].ta)
         IN  /\ res.err = Some(INSUFFICIENT) /\ ~res.raised
             /\ res.df = df /\ ~res.df.columns /\ res.df.last = None
             /\ signal_result # None =>
                  signal_result[1] = [df |-> None, err |-> Some(INSUFFICIENT)]
    /\ (scan # None /\ scan[1].summary # None) =>
         \A j \in 1..(scan[1].i - 1) :
            LET d == scan_data[1].frames[Tickers[j]]
            IN  (d.kind = "frame" /\ EffectiveLen(d) < MIN_BARS) =>
                   \A s \in {BUY, HOLD, SELL} :
                      \A k \in 1..Len(scan[1].summary[1][s]) :
                         scan[1].summary[1][s][k].ticker # Tickers[j]

C7_Witness ==
    /\ signal_result # None /\ bars[1].len = MIN_BARS - 1
    /\ signal_result[1].err = Some(INSUFFICIENT)
    /\ scan # None /\ scan[1].pc = "done" /\ scan[1].result # None
    /\ \E t \in TickerSet : scan_data[1].frames[t].kind = "frame"
                            /\ scan_data[1].frames[t].len = MIN_BARS - 1

\* ========================================================================
\* get_comprehensive_analysis
\* ========================================================================

\* pc_ratio with numerator and denominator exchanged.
pc_ratio_inverted(total_call_vol, total_put_vol) ==
    IF total_call_vol > 0 THEN [num |-> total_call_vol, den |-> total_put_vol]
    ELSE [num |-> 2, den |-> 1]

\* ratio = total_put_vol / total_call_vol if total_call_vol > 0 else 2.0, and
\* the dictionary get_advanced_pc_ratio returns with it.
pc_ratio(total_call_vol, total_put_vol) ==
    IF total_call_vol > 0 THEN [num |-> total_put_vol, den |-> total_call_vol]
    ELSE [num |-> 2, den |-> 1]

pc_result(total_call_vol, total_put_vol, details) ==
    [ratio |-> pc_ratio(total_call_vol, total_put_vol),
     total_call |-> total_call_vol, total_put |-> total_put_vol, details |-> details]

\* q > a/10 and q < a/10 for a float quotient q = num/den of numpy: x/0 is inf
\* for x > 0 and NaN for x = 0.
RatioGt(q, tenths) ==
    IF q.den = 0 THEN q.num > 0 ELSE 10 * q.num > tenths * q.den
RatioLt(q, tenths) ==
    IF q.den = 0 THEN FALSE ELSE 10 * q.num < tenths * q.den

\* One line of analysis_report: (factor, verdict, text, score); the score in
\* half points.  The text is presentation and is left out.
Line(factor, verdict, score2) == [factor |-> factor, verdict |-> verdict, score |-> score2]

\* Each of the five blocks: [lines, bull, bear], the report lines it appends and
\* what it adds to bull_score and bear_score (half points).
ma_factor(row) ==
    IF row.Close > row.EMA_8 /\ row.EMA_8 > row.EMA_21
    THEN [lines |-> <<Line("MA", "bull", 2)>>, bull |-> 2, bear |-> 0]
    ELSE IF row.Close < row.EMA_21
    THEN [lines |-> <<Line("MA", "bear", -2)>>, bull |-> 0, bear |-> 2]
    ELSE [lines |-> <<Line("MA", "neutral", 0)>>, bull |-> 0, bear |-> 0]

macd_factor(row, prev_row) ==
    IF row.MACD_Hist > 0
    THEN IF row.MACD_Hist > prev_row.MACD_Hist
         THEN [lines |-> <<Line("MACD", "bull", 2)>>, bull |-> 2, bear |-> 0]
         ELSE [lines |-> <<Line("MACD", "neutral", 0)>>, bull |-> 0, bear |-> 0]
    ELSE [lines |-> <<Line("MACD", "bear", -2)>>, bull |-> 0, bear |-> 2]

rsi_factor(row) ==
    LET rsi == row.RSI
    IN  IF rsi > 50
        THEN IF rsi > 70
             THEN [lines |-> <<Line("RSI", "overbought", 1)>>, bull |-> 1, bear |-> 0]
             ELSE [lines |-> <<Line("RSI", "bull", 2)>>, bull |-> 2, bear |-> 0]
        ELSE IF rsi < 30
             THEN [lines |-> <<Line("RSI", "oversold", -1)>>, bull |-> 0, bear |-> 1]
             ELSE [lines |-> <<Line("RSI", "bear", -2)>>, bull |-> 0, bear |-> 2]

volume_factor(row) ==
    LET vol_ratio == [num |-> row.Volume, den |-> row.Vol_SMA_10]
    IN  IF row.Close > row.Open
        THEN IF RatioGt(vol_ratio, 12)
             THEN [lines |-> <<Line("VOLUME", "bull", 2)>>, bull |-> 2, bear |-> 0]
             ELSE IF RatioLt(vol_ratio, 8)
             THEN [lines |-> <<Line("VOLUME", "neutral", 0)>>, bull |-> 0, bear |-> 0]
             ELSE [lines |-> <<>>, bull |-> 0, bear |-> 0]
        ELSE IF RatioGt(vol_ratio, 12)
             THEN [lines |-> <<Line("VOLUME", "bear", -2)>>, bull |-> 0, bear |-> 2]
             ELSE [lines |-> <<>>, bull |-> 0, bear |-> 0]

\* options_factor that reports a neutral line when there is no pc_data.
options_factor_forced_zero(pc_data) ==
    IF pc_data # None
    THEN LET ratio == pc_data[1].ratio
         IN  IF RatioLt(ratio, 7)
             THEN [lines |-> <<Line("OPTIONS", "bull", 2)>>, bull |-> 2, bear |-> 0]
             ELSE IF RatioGt(ratio, 11)
             THEN [lines |-> <<Line("OPTIONS", "bear", -2)>>, bull |-> 0, bear |-> 2]
             ELSE [lines |-> <<Line("OPTIONS", "neutral", 0)>>, bull |-> 0, bear |-> 0]
    ELSE [lines |-> <<Line("OPTIONS", "neutral", 0)>>, bull |-> 0, bear |-> 0]

options_factor(pc_data) ==
    IF pc_data # None
    THEN LET ratio == pc_data[1].ratio
         IN  IF RatioLt(ratio, 7)
             THEN [lines |-> <<Line("OPTIONS", "bull", 2)>>, bull |-> 2, bear |-> 0]
             ELSE IF RatioGt(ratio, 11)
             THEN [lines |-> <<Line("OPTIONS", "bear", -2)>>, bull |-> 0, bear |-> 2]
             ELSE [lines |-> <<Line("OPTIONS", "neutral", 0)>>, bull |-> 0, bear |-> 0]
    ELSE [lines |-> <<>>, bull |-> 0, bear |-> 0]

\* sentiment_of with the strong bands strict (> 2.5, < -2.5).
sentiment_of_strict(total_score) ==
    IF total_score > 5 THEN "STRONG_BULL"
    ELSE IF total_score >= 2 THEN "LEAN_BULL"
    ELSE IF total_score < -5 THEN "STRONG_BEAR"
    ELSE IF total_score <= -2 THEN "LEAN_BEAR"
    ELSE "BALANCED"

\* The label of a total score (half points: 2.5 is 5, 1 is 2).
sentiment_of(total_score) ==
    IF total_score >= 5 THEN "STRONG_BULL"
    ELSE IF total_score >= 2 THEN "LEAN_BULL"
    ELSE IF total_score <= -5 THEN "STRONG_BEAR"
    ELSE IF total_score <= -2 THEN "LEAN_BEAR"
    ELSE "BALANCED"

\* get_comprehensive_analysis(row, prev_row, pc_data): the sentiment and the
\* report it returns, and the local total_score the sentiment is taken from.
get_comprehensive_analysis(row, prev_row, pc_data) ==
    LET f == <<ma_factor(row), macd_factor(row, prev_row), rsi_factor(row),
               volume_factor(row), options_factor(pc_data)>>
        bull_score == f[1].bull + f[2].bull + f[3].bull + f[4].bull + f[5].bull
        bear_score == f[1].bear + f[2].bear + f[3].bear + f[4].bear + f[5].bear
        total_score == bull_score - bear_score
    IN  [sentiment |-> sentiment_of(total_score),
         analysis_report |-> f[1].lines \o f[2].lines \o f[3].lines \o f[4].lines \o f[5].lines,
         total_score |-> total_score]

\* Last rows of an accepted frame, as the scorer reads them.
ScoreRows ==
    [Close : {1, 2, 3}, Open : {2, 3}, EMA_8 : {2, 3}, EMA_21 : {1, 2, 3},
     MACD_Hist : {-1, 0, 1, 2}, RSI : {20, 30, 40, 50, 60, 70, 80},
     Volume : {7, 8, 10, 12, 13}, Vol_SMA_10 : {10}]
    \cup [Close : {1, 2, 3}, Open : {2, 3}, EMA_8 : {2, 3}, EMA_21 : {1, 2, 3},
          MACD_Hist : {-1, 0, 1, 2}, RSI : {20, 30, 40, 50, 60, 70, 80},
          Volume : {0}, Vol_SMA_10 : {0}]

\* Put/call results the scorer may be handed.
ScorePcs ==
    {None} \cup {Some(pc_result(10, p, <<>>)) : p \in {5, 7, 8, 11, 12}}
           \cup {Some(pc_result(0, 120, <<>>))}

InitScore ==
    /\ \E row \in ScoreRows, pc \in ScorePcs :
         score_in = Some([row |-> row, prev_row |-> [MACD_Hist |-> 1], pc_data |-> pc])
    /\ score_out = None
    /\ IdleSignal /\ IdleScan /\ IdleOptions /\ IdleWindow /\ IdleRender

\* One call of get_comprehensive_analysis.
Analyse ==
    /\ score_in # None /\ score_out = None
    /\ score_out' = Some(get_comprehensive_analysis(score_in[1].row, score_in[1].prev_row,
                                                   score_in[1].pc_data))
    /\ UNCHANGED <<bars, signal_result, score_in, scan_data, scan, opt_in, opt,
                   win_in, win_out, file, clock, render, expected, nsaves>>

NextScore == Analyse

SpecScore == InitScore /\ [][NextScore]_vars

\* The factor contributions as the specification words them (section 4.4), in
\* half points.
ClaimMA(row) ==
    IF row.Close > row.EMA_8 /\ row.EMA_8 > row.EMA_21 THEN 2
    ELSE IF row.Close < row.EMA_21 THEN -2 ELSE 0
ClaimMACD(row, prev_row) ==
    IF row.MACD_Hist > 0 /\ row.MACD_Hist > prev_row.MACD_Hist THEN 2
    ELSE IF row.MACD_Hist > 0 THEN 0 ELSE -2
ClaimRSI(row) ==
    IF row.RSI > 70 THEN 1
    ELSE IF row.RSI > 50 THEN 2
    ELSE IF row.RSI >= 30 THEN -2 ELSE -1
ClaimVolume(row) ==
    IF row.Close > row.Open /\ 10 * row.Volume > 12 * row.Vol_SMA_10 THEN 2
    ELSE IF row.Close <= row.Open /\ 10 * row.Volume > 12 * row.Vol_SMA_10 THEN -2
    ELSE 0
ClaimOptions(pc_data) ==
    IF pc_data = None THEN 0
    ELSE IF 10 * pc_data[1].ratio.num < 7 * pc_data[1].ratio.den THEN 2
    ELSE IF 10 * pc_data[1].ratio.num > 11 * pc_data[1].ratio.den THEN -2 ELSE 0
ClaimTotal(row, prev_row, pc_data) ==
    ClaimMA(row) + ClaimMACD(row, prev_row) + ClaimRSI(row) + ClaimVolume(row)
    + ClaimOptions(pc_data)
ClaimLabel(total) ==
    CASE total >= 5 -> "STRONG_BULL"
      [] 2 <= total /\ total < 5 -> "LEAN_BULL"
      [] total <= -5 -> "STRONG_BEAR"
      [] -5 < total /\ total <= -2 -> "LEAN_BEAR"
      [] OTHER -> "BALANCED"

RECURSIVE SumScores(_)
SumScores(lines) ==
    IF lines = <<>> THEN 0 ELSE lines[1].score + SumScores(Tail(lines))

\* C2: the total score is the signed sum of the five factor contributions of
\* section 4.4 (the options factor only with pc_data), the report lines carry
\* the same contributions, and the label is the one of the total's band; the
\* all-bullish row scores 5.0 (10 half points) and is labelled strong bull.
C2_ScoreAndLabel ==
    score_out # None =>
        LET in == score_in[1]
            out == score_out[1]
        IN  /\ out.total_score = ClaimTotal(in.row, in.prev_row, in.pc_data)
            /\ out.total_score = SumScores(out.analysis_report)
            /\ out.sentiment = ClaimLabel(out.total_score)
            /\ (/\ ClaimMA(in.row) = 2 /\ ClaimMACD(in.row, in.prev_row) = 2
                /\ ClaimRSI(in.row) = 2 /\ ClaimVolume(in.row) = 2
                /\ ClaimOptions(in.pc_data) = 2)
               => (out.total_score = 10 /\ out.sentiment = "STRONG_BULL")

C2_Witness ==
    /\ score_out # None
    /\ score_in[1].row.Close > score_in[1].row.EMA_8
    /\ score_in[1].row.EMA_8 > score_in[1].row.EMA_21
    /\ score_in[1].row.MACD_Hist = 2 /\ score_in[1].row.RSI = 60
    /\ score_in[1].row.Close > score_in[1].row.Open
    /\ score_in[1].row.Volume = 13 /\ score_in[1].row.Vol_SMA_10 = 10
    /\ score_in[1].pc_data = Some(pc_result(10, 5, <<>>))
    /\ score_out[1].total_score = 10
    /\ Len(score_out[1].analysis_report) = 5

\* ========================================================================
\* get_advanced_pc_ratio
\* ========================================================================
\* One side of an option chain is a sequence of [strike, volume] rows; prices
\* are in half dollars (230 is $115.00).  Positions are Python's, from 0: row k
\* of the frame is element k + 1 of the sequence.

Abs(x) == IF x < 0 THEN -x ELSE x

\* (np.abs(side['strike'] - current_price)).argmin(): the first position of
\* the smallest distance.
center_idx(side, current_price) ==
    CHOOSE c \in 0..(Len(side) - 1) :
        /\ \A j \in 0..(Len(side) - 1) :
              Abs(side[c + 1].strike - current_price) <= Abs(side[j + 1].strike - current_price)
        /\ \A j \in 0..(c - 1) :
              Abs(side[j + 1].strike - current_price) > Abs(side[c + 1].strike - current_price)

\* strike_window with the slice one short at the top (center_idx + 5).
strike_window_short(side, current_price) ==
    LET c == center_idx(side, current_price)
        start == Max(0, c - HALF_WINDOW)
        stop == Min(Len(side), c + HALF_WINDOW)
    IN  [center |-> c, lo |-> start, hi |-> stop - 1]

\* The slice max(0, c - 5) : min(len, c + 6), as the positions lo..hi it takes.
strike_window(side, current_price) ==
    LET c == center_idx(side, current_price)
        start == Max(0, c - HALF_WINDOW)
        stop == Min(Len(side), c + HALF_WINDOW + 1)
    IN  [center |-> c, lo |-> start, hi |-> stop - 1]

\* ['volume'].fillna(0).sum() over the rows of a slice.
RECURSIVE volume_sum(_)
volume_sum(rows) ==
    IF rows = <<>> THEN 0
    ELSE (IF rows[1].volume = NaN THEN 0 ELSE rows[1].volume) + volume_sum(Tail(rows))

\* c_vol / p_vol of one side.
window_volume(side, current_price) ==
    LET w == strike_window(side, current_price)
    IN  volume_sum(SubSeq(side, w.lo + 1, w.hi + 1))

RECURSIVE Pow2(_)
Pow2(k) == IF k = 0 THEN 1 ELSE 2 * Pow2(k - 1)

\* Chain sides of n strikes, $5 apart from $90: every volume a different power
\* of two (the sum names the rows summed), or volumes missing at every other
\* strike.
PowerSide(n) == [i \in 1..n |-> [strike |-> 180 + 10 * (i - 1), volume |-> Pow2(i - 1)]]
GappySide(n) ==
    [i \in 1..n |-> [strike |-> 180 + 10 * (i - 1),
                     volume |-> IF i % 2 = 0 THEN NaN ELSE 3]]
SpotPrices == {170 + 5 * k : k \in 0..26}

InitWindow ==
    /\ \E n \in 1..MaxChain, side \in {"power", "gappy"}, p \in SpotPrices :
         win_in = Some([side |-> IF side = "power" THEN PowerSide(n) ELSE GappySide(n),
                        current_price |-> p])
    /\ win_out = None
    /\ IdleSignal /\ IdleScore /\ IdleScan /\ IdleOptions /\ IdleRender

\* Lines 193-194 (196-197 for puts) on one side of a chain.
SumWindow ==
    /\ win_in # None /\ win_out = None
    /\ LET w == strike_window(win_in[1].side, win_in[1].current_price)
       IN  win_out' = Some([center |-> w.center, lo |-> w.lo, hi |-> w.hi,
                            vol |-> window_volume(win_in[1].side, win_in[1].current_price)])
    /\ UNCHANGED <<bars, signal_result, score_in, score_out, scan_data, scan, opt_in, opt,
                   win_in, file, clock, render, expected, nsaves>>

NextWindow == SumWindow

SpecWindow == InitWindow /\ [][NextWindow]_vars

RECURSIVE SumPositions(_, _, _)
SumPositions(side, lo, hi) ==
    IF lo > hi THEN 0
    ELSE (IF side[lo + 1].volume = NaN THEN 0 ELSE side[lo + 1].volume)
         + SumPositions(side, lo + 1, hi)

\* C9: the summed window is centered on the position c of the strike nearest to
\* spot and covers positions max(0, c-5) .. min(len-1, c+5): 11 strikes when 5
\* exist on each side of c, clipped otherwise, always holding c, never outside
\* the chain; the volume summed is that of exactly these positions.
C9_StrikeWindow ==
    win_out # None =>
        LET side == win_in[1].side
            spot == win_in[1].current_price
            n == Len(side)
            w == win_out[1]
            c == w.center
        IN  /\ c \in 0..(n - 1)
            /\ \A j \in 0..(n - 1) :
                  Abs(side[c + 1].strike - spot) <= Abs(side[j + 1].strike - spot)
            /\ w.lo = Max(0, c - 5) /\ w.hi = Min(n - 1, c + 5)
            /\ 0 <= w.lo /\ w.lo <= c /\ c <= w.hi /\ w.hi <= n - 1
            /\ (c >= 5 /\ c + 5 <= n - 1) => (w.hi - w.lo + 1 = 11)
            /\ w.vol = SumPositions(side, Max(0, c - 5), Min(n - 1, c + 5))

\* The specification's example: 12 strikes 90..145, spot 115.
C9_Witness ==
    /\ win_out # None
    /\ win_in[1].side = PowerSide(12) /\ win_in[1].current_price = 230
    /\ win_out[1].center = 5 /\ win_out[1].lo = 0 /\ win_out[1].hi = 10
    /\ win_out[1].vol = Pow2(11) - 1

\* ------------------------------------------------------------------------
\* The expiration loop of get_advanced_pc_ratio.

NO_OPTIONS == "no options data"
NO_NEAR_TERM == "no expiration within 40 days"

\* An entry of tk.options: whether strptime parses it, and (exp_date - today).days.
ExpirationDates ==
    {[parse_ok |-> FALSE, days |-> 0]}
    \cup {[parse_ok |-> TRUE, days |-> d] : d \in {-1, 0, WINDOW_DAYS, WINDOW_DAYS + 1}}

\* Lines 178-183: the positions in tk.options of the dates kept.
RECURSIVE valid_dates_from(_, _)
valid_dates_from(expirations, k) ==
    IF k > Len(expirations) THEN <<>>
    ELSE LET e == expirations[k]
             keep == e.parse_ok /\ 0 <= e.days /\ e.days <= WINDOW_DAYS
         IN  (IF keep THEN <<k>> ELSE <<>>) \o valid_dates_from(expirations, k + 1)

\* Chain sides tk.option_chain may return: empty, traded at no strike, traded
\* at two of three strikes (120 contracts), traded at every strike.
FlatSide(n) == [i \in 1..n |-> [strike |-> 180 + 10 * (i - 1), volume |-> 1]]
ChainSides ==
    {<<>>,
     <<[strike |-> 220, volume |-> NaN], [strike |-> 230, volume |-> 0],
       [strike |-> 240, volume |-> NaN]>>,
     <<[strike |-> 220, volume |-> 50], [strike |-> 230, volume |-> NaN],
       [strike |-> 240, volume |-> 70]>>,
     FlatSide(MaxChain)}

InitOptions ==
    /\ \E n \in 0..MaxExp, raises \in BOOLEAN :
         \E expirations \in [1..n -> ExpirationDates] :
            /\ raises => n = 0
            /\ opt_in = Some([current_price |-> 230, options_raises |-> raises,
                              expirations |-> expirations])
    /\ opt = Some([pc |-> "start", valid_dates |-> <<>>, i |-> 1,
                   total_call_vol |-> 0, total_put_vol |-> 0, details |-> <<>>,
                   data |-> None, err |-> None])
    /\ IdleSignal /\ IdleScore /\ IdleScan /\ IdleWindow /\ IdleRender

OptUnchanged ==
    UNCHANGED <<bars, signal_result, score_in, score_out, scan_data, scan, opt_in,
                win_in, win_out, file, clock, render, expected, nsaves>>

\* Lines 174-186: tk.options, the early returns, the date filter.
PcStart ==
    /\ opt # None /\ opt[1].pc = "start"
    /\ LET in == opt_in[1]
           valid_dates == valid_dates_from(in.expirations, 1)
       IN  opt' =
             IF in.options_raises
             THEN Some([opt[1] EXCEPT !.pc = "done", !.err = Some("exception")])
             ELSE IF in.expirations = <<>>
             THEN Some([opt[1] EXCEPT !.pc = "done", !.err = Some(NO_OPTIONS)])
             ELSE IF valid_dates = <<>>
             THEN Some([opt[1] EXCEPT !.pc = "done", !.err = Some(NO_NEAR_TERM)])
             ELSE Some([opt[1] EXCEPT !.pc = "loop", !.valid_dates = valid_dates])
    /\ OptUnchanged

\* Lines 187-201, one expiration: option_chain raises, or a side is missing or
\* empty (both skip the date), or both sides are summed and accumulated.
PcChain ==
    /\ opt # None /\ opt[1].pc = "loop" /\ opt[1].i <= Len(opt[1].valid_dates)
    /\ \/ \* tk.option_chain(date) raises: except: continue
          /\ opt' = Some([opt[1] EXCEPT !.i = @ + 1])
       \/ \E calls \in ChainSides, puts \in ChainSides :
            LET price == opt_in[1].current_price
                date == opt[1].valid_dates[opt[1].i]
            IN  IF calls = <<>> \/ puts = <<>>
                THEN opt' = Some([opt[1] EXCEPT !.i = @ + 1])
                ELSE LET c_vol == window_volume(calls, price)
                         p_vol == window_volume(puts, price)
                     IN  opt' = Some([opt[1] EXCEPT
                                   !.i = @ + 1,
                                   !.total_call_vol = @ + c_vol,
                                   !.total_put_vol = @ + p_vol,
                                   !.details = Append(@, [date |-> date, Call |-> c_vol,
                                                          Put |-> p_vol])])
    /\ OptUnchanged

\* Lines 203-204: the ratio and the returned dictionary.
PcReturn ==
    /\ opt # None /\ opt[1].pc = "loop" /\ opt[1].i > Len(opt[1].valid_dates)
    /\ opt' = Some([opt[1] EXCEPT
                      !.pc = "done",
                      !.data = Some(pc_result(opt[1].total_call_vol, opt[1].total_put_vol,
                                              opt[1].details)),
                      !.err = None])
    /\ OptUnchanged

NextOptions == PcStart \/ PcChain \/ PcReturn

SpecOptions == InitOptions /\ [][NextOptions]_vars

\* C3: with no call and no put volume accumulated over the valid expirations
\* (every one skipped included), the result is a failure: no data, an error.
C3_ZeroVolumeFails ==
    (opt # None /\ opt[1].pc = "done" /\ opt[1].valid_dates # <<>>
       /\ opt[1].total_call_vol = 0 /\ opt[1].total_put_vol = 0) =>
        (opt[1].data = None /\ opt[1].err # None)

RECURSIVE SumField(_, _)
SumField(details, side) ==
    IF details = <<>> THEN 0
    ELSE (IF side = "Call" THEN details[1].Call ELSE details[1].Put)
         + SumField(Tail(details), side)

\* C8: the returned ratio is total_put_vol / total_call_vol whenever call
\* volume was accumulated, and exactly the sentinel 2.0, with no error, when
\* there is put volume and no call volume.
C8_RatioPolicy ==
    (opt # None /\ opt[1].pc = "done" /\ opt[1].valid_dates # <<>>) =>
        LET calls == SumField(opt[1].details, "Call")
            puts == SumField(opt[1].details, "Put")
        IN  /\ calls = opt[1].total_call_vol /\ puts = opt[1].total_put_vol
            /\ calls > 0 =>
                  /\ opt[1].data # None
                  /\ opt[1].data[1].ratio.den > 0
                  /\ opt[1].data[1].ratio.num * calls = puts * opt[1].data[1].ratio.den
            /\ (calls = 0 /\ puts > 0) =>
                  /\ opt[1].data # None /\ opt[1].err = None
                  /\ opt[1].data[1].ratio = [num |-> 2, den |-> 1]

C8_Witness ==
    /\ opt # None /\ opt[1].pc = "done" /\ opt[1].data # None
    /\ opt[1].data[1].total_call = 0 /\ opt[1].data[1].total_put = 120
    /\ opt[1].data[1].ratio = [num |-> 2, den |-> 1]

\* ========================================================================
\* 3. Snapshot store
\* ========================================================================
\* SNAPSHOT_FILE is absent, unreadable as JSON, or the text json.dump wrote: the
\* items of the dictionary in insertion order.  A Python dict is [keys, vals]:
\* its keys in insertion order and the value of each.

AbsentFile == [kind |-> "absent", items |-> <<>>]
CorruptFile == [kind |-> "corrupt", items |-> <<>>]

EmptyDict == [keys |-> <<>>, vals |-> <<>>]
KeySet(d) == {d.keys[i] : i \in 1..Len(d.keys)}

\* d.get(k)
dict_get(d, k) == IF k \in KeySet(d) THEN Some(d.vals[k]) ELSE None

\* d[k] = v: a new key goes last, a known key keeps its place.
dict_set(d, k, v) ==
    [keys |-> IF k \in KeySet(d) THEN d.keys ELSE Append(d.keys, k),
     vals |-> [x \in KeySet(d) \cup {k} |-> IF x = k THEN v ELSE d.vals[x]]]

\* json.dump(all_data, f): one item per key, in order.
json_dump(d) ==
    [kind |-> "json", items |-> [i \in 1..Len(d.keys) |-> <<d.keys[i], d.vals[d.keys[i]]>>]]

\* json.load(f) of a file json.dump wrote.
RECURSIVE json_load_items(_, _)
json_load_items(items, d) ==
    IF items = <<>> THEN d
    ELSE json_load_items(Tail(items), dict_set(d, items[1][1], items[1][2]))
json_load(f) == json_load_items(f.items, EmptyDict)

\* load_snapshot(ticker): None without a file, on unreadable content, and
\* without the key.
load_snapshot(f, ticker) ==
    IF f.kind = "absent" THEN None
    ELSE IF f.kind = "corrupt" THEN None
    ELSE dict_get(json_load(f), ticker)

\* save_snapshot that writes the new record alone, without reading the file.
save_snapshot_overwrite(f, ticker, price, pc_data, now) ==
    json_dump(dict_set(EmptyDict, ticker,
                       [date |-> now.date, timestamp |-> now,
                        close_price |-> price, pc_data |-> pc_data]))

\* save_snapshot(ticker, price, pc_data) at the server's local time now: the
\* file it leaves.  date and timestamp are now formatted to the day and to the
\* second.
save_snapshot(f, ticker, price, pc_data, now) ==
    LET record == [date |-> now.date, timestamp |-> now,
                   close_price |-> price, pc_data |-> pc_data]
        all_data == IF f.kind = "json" THEN json_load(f) ELSE EmptyDict
    IN  json_dump(dict_set(all_data, ticker, record))

\* ========================================================================
\* 5. The page render
\* ========================================================================
\* clock is [day, hour, minute, zone]: the US/Eastern date and time, and how
\* many hours the server's local zone is ahead of US/Eastern.  0 is an Eastern
\* host, and stands for every zone whose date at 15:55 Eastern is the Eastern
\* date (a UTC host, 5 hours ahead, among them); 13 is a UTC+8 host, where it
\* is already the next day.  A date is a day number: both dates compared are
\* formatted with the same '%Y-%m-%d'.

ServerZones == {0, 13}
\* The moments at which the page is rendered, within one day: before the
\* closing window and inside it (any number of renders at each).
RenderTimes == << <<15, 54>>, <<15, 55>> >>

\* datetime.datetime.now(est).strftime('%Y-%m-%d')
est_date(c) == c.day

\* datetime.datetime.now(): the server's local date and time.
local_now(c) ==
    [date |-> c.day + ((c.hour + c.zone) \div 24),
     hour |-> (c.hour + c.zone) % 24, minute |-> c.minute]

\* is_closing_window = (now_est.hour == 15 and now_est.minute >= 55)
is_closing_window(c) == c.hour = 15 /\ c.minute >= 55

\* What get_signal is given on a render: the download fails, or a frame of
\* enough bars whose last Close is price.
RenderBars(price) ==
    [download_fails |-> FALSE, len |-> MIN_BARS, lastNaN |-> FALSE,
     ta |-> [row |-> [Close |-> price, Open |-> 245, EMA_8 |-> 240, EMA_21 |-> 230,
                      MACD_Hist |-> 2, prevHist |-> 1, Volume |-> 13,
                      Vol_SMA_10 |-> 10, RSI |-> 60, Signal |-> ""],
             prev_close |-> 245, raises |-> FALSE]]
FailedBars ==
    [download_fails |-> TRUE, len |-> 0, lastNaN |-> FALSE,
     ta |-> [row |-> HoldRow, prev_close |-> 2, raises |-> FALSE]]
Prices == {250, 251}

\* What get_advanced_pc_ratio returns on a render: nothing, or a result.
LivePcs == {None, Some(pc_result(100, 50, <<[date |-> 1, Call |-> 100, Put |-> 50]>>))}

InitRender ==
    /\ file \in {AbsentFile, CorruptFile}
    /\ \E z \in ServerZones :
         clock = [day |-> 1, hour |-> RenderTimes[1][1], minute |-> RenderTimes[1][2],
                  zone |-> z]
    /\ render = None
    /\ expected = [t \in TickerSet |-> None]
    /\ nsaves = [t \in TickerSet |-> 0]
    /\ IdleSignal /\ IdleScore /\ IdleScan /\ IdleOptions /\ IdleWindow

RenderUnchanged ==
    UNCHANGED <<bars, signal_result, score_in, score_out, scan_data, scan, opt_in, opt,
                win_in, win_out>>

\* Lines 327-329: whether the capture block calls save_snapshot, for live
\* put/call data pc_data of the selected ticker.
should_save(f, c, selected_ticker, pc_data) ==
    /\ is_closing_window(c) /\ pc_data # None
    /\ LET saved == load_snapshot(f, selected_ticker)
       IN  saved = None \/ saved[1].date # est_date(c)

\* Lines 327-331: the file after the capture block.
capture(f, c, selected_ticker, close, pc_data) ==
    IF should_save(f, c, selected_ticker, pc_data)
    THEN save_snapshot(f, selected_ticker, close, pc_data[1], local_now(c))
    ELSE f

\* One run of the page script for the selected ticker: get_signal, the live
\* options computation, the capture block, the snapshot fallback, the scorer.
Render ==
    /\ file # None
    /\ \E selected_ticker \in TickerSet, b \in {FailedBars} \cup {RenderBars(p) : p \in Prices},
          live \in LivePcs :
        \E sig \in {get_signal(b)} :
            IF sig.err # None
            THEN /\ render' = Some([ticker |-> selected_ticker, error |-> sig.err,
                                    closing |-> is_closing_window(clock), live |-> None,
                                    saved |-> FALSE, pc_data |-> None, source |-> "none",
                                    last |-> None, report |-> None])
                 /\ UNCHANGED <<file, clock, expected, nsaves>>
                 /\ RenderUnchanged
            ELSE \E last \in {sig.df[1].last[1]} :
                 /\ file' = capture(file, clock, selected_ticker, last.Close, live)
                 /\ \E snap \in {IF live = None THEN load_snapshot(file', selected_ticker)
                                 ELSE None} :
                    \E pc_data \in {IF live = None /\ snap # None
                                    THEN Some(snap[1].pc_data) ELSE live} :
                       render' = Some([ticker |-> selected_ticker, error |-> None,
                                       closing |-> is_closing_window(clock), live |-> live,
                                       saved |-> should_save(file, clock, selected_ticker, live),
                                       pc_data |-> pc_data,
                                       last |-> Some(last),
                                       source |-> IF live # None THEN "live"
                                                  ELSE IF snap # None THEN "snapshot"
                                                  ELSE "none",
                                       report |-> Some(get_comprehensive_analysis(
                                                    last, [MACD_Hist |-> last.prevHist],
                                                    pc_data))])
                 /\ expected' = IF render'[1].saved
                                THEN [expected EXCEPT ![selected_ticker] =
                                        Some([date |-> local_now(clock).date,
                                              close_price |-> last.Close,
                                              pc_data |-> live[1]])]
                                ELSE expected
                 /\ nsaves' = IF render'[1].saved
                              THEN [nsaves EXCEPT ![selected_ticker] = Min(@ + 1, 2)]
                              ELSE nsaves
                 /\ UNCHANGED clock
                 /\ RenderUnchanged

\* Time passes to the next render time of the day.
Tick ==
    /\ clock # None
    /\ \E k \in 1..(Len(RenderTimes) - 1) :
         /\ clock.hour = RenderTimes[k][1] /\ clock.minute = RenderTimes[k][2]
         /\ clock' = [clock EXCEPT !.hour = RenderTimes[k + 1][1],
                                   !.minute = RenderTimes[k + 1][2]]
    /\ UNCHANGED <<file, render, expected, nsaves>>
    /\ RenderUnchanged

\* Midnight Eastern: the next day begins.
NextDay ==
    /\ clock # None /\ clock.day < MaxDay
    /\ clock.hour = RenderTimes[Len(RenderTimes)][1]
    /\ clock.minute = RenderTimes[Len(RenderTimes)][2]
    /\ clock' = [clock EXCEPT !.day = @ + 1, !.hour = RenderTimes[1][1],
                              !.minute = RenderTimes[1][2]]
    /\ nsaves' = [t \in TickerSet |-> 0]
    /\ UNCHANGED <<file, render, expected>>
    /\ RenderUnchanged

Next == Render \/ Tick \/ NextDay

Spec == InitRender /\ [][Next]_vars

\* ------------------------------------------------------------------------
\* Properties of the snapshot store and of the render

\* C5: after any sequence of saves, load_snapshot(t) returns for every saved
\* ticker the record of its latest save (the date of that save's calendar day,
\* the price and the pc_data handed to it), whatever was saved for other
\* tickers in between, and None for a ticker never saved.
C5_SnapshotRoundTrip ==
    file # None =>
        \A t \in TickerSet :
            LET got == load_snapshot(file, t)
            IN  IF expected[t] = None THEN got = None
                ELSE /\ got # None
                     /\ got[1].date = expected[t][1].date
                     /\ got[1].close_price = expected[t][1].close_price
                     /\ got[1].pc_data = expected[t][1].pc_data

\* Two tickers stored, the first one saved again a day after the second.
C5_Witness ==
    /\ file # None /\ clock.zone = 0
    /\ \E t, u \in TickerSet :
         /\ t # u /\ TickerIndex(t) < TickerIndex(u)
         /\ load_snapshot(file, t) # None /\ load_snapshot(file, u) # None
         /\ load_snapshot(file, t)[1].date = 2
         /\ load_snapshot(file, u)[1].date = 1

\* C6: a render saves only inside the closing window and with live options
\* data, and a ticker is saved at most once per (Eastern) calendar day.
C6_SaveOncePerDay ==
    (file # None) =>
        /\ (render # None /\ render[1].saved) =>
              (render[1].closing /\ render[1].live # None)
        /\ \A t \in TickerSet : nsaves[t] <= 1

\* C10: a render without live options data is not blocked; the scorer gets the
\* stored snapshot's pc_data (source snapshot) if the selected ticker has one,
\* and otherwise no pc_data: then the report has no options line and the total
\* is that of the other four factors.  With live data the snapshot is not used.
C10_OptionsFallback ==
    (render # None /\ render[1].error = None) =>
        LET r == render[1]
            snap == load_snapshot(file, r.ticker)
            row == r.last[1]
            prev == [MACD_Hist |-> row.prevHist]
        IN  /\ r.report # None
            /\ r.live # None => (r.pc_data = r.live /\ r.source = "live")
            /\ (r.live = None /\ snap # None) =>
                  (r.pc_data = Some(snap[1].pc_data) /\ r.source = "snapshot")
            /\ (r.live = None /\ snap = None) =>
                  /\ r.pc_data = None /\ r.source = "none"
                  /\ \A k \in 1..Len(r.report[1].analysis_report) :
                        r.report[1].analysis_report[k].factor # "OPTIONS"
                  /\ r.report[1].total_score =
                        ClaimMA(row) + ClaimMACD(row, prev) + ClaimRSI(row) + ClaimVolume(row)
            /\ r.report[1].total_score = ClaimTotal(row, prev, r.pc_data)

\* Outside the closing window, no live data, a snapshot stored earlier is used.
C10_Witness ==
    /\ render # None /\ render[1].error = None
    /\ render[1].live = None /\ ~render[1].closing
    /\ render[1].source = "snapshot"
    /\ render[1].pc_data # None
    /\ Len(render[1].report[1].analysis_report) = 5

\* C11: the BUY mask and the SELL mask exclude each other on every row: a row
\* with Close > EMA_8 > EMA_21 and MACD_Hist > 0 is outside the SELL mask, so
\* the override leaves every row the BUY step marked BUY as BUY and overwrites
\* HOLD rows only.
C11_MasksExclusive ==
    (signal_result # None /\ signal_result[1].df # None) =>
        LET row == bars[1].ta.row
            sig == signal_result[1].df[1].last[1].Signal
            trend_up == /\ Gt(row.Close, row.EMA_8) /\ Gt(row.EMA_8, row.EMA_21)
                        /\ Gt(row.MACD_Hist, 0)
        IN  /\ trend_up => (~sell_cond(row) /\ sig # SELL)
            /\ ~(buy_cond(row) /\ sell_cond(row))
            /\ ClaimBuy(row) => sig = BUY
            /\ sig = SELL => ~ClaimBuy(row)

\* A row the BUY step marks, with the long average and the histogram present,
\* that comes out BUY.
C11_Witness ==
    /\ signal_result # None /\ signal_result[1].df # None
    /\ buy_cond(bars[1].ta.row) /\ ~sell_cond(bars[1].ta.row)
    /\ bars[1].ta.row.EMA_21 # NaN /\ bars[1].ta.row.MACD_Hist = 2
    /\ bars[1].len = MIN_BARS + 1
    /\ signal_result[1].df[1].last[1].Signal = BUY

====
